---- MODULE Spec2Model ----
(***************************************************************************)
(* Model of the trait_set! procedural macro (src/src/lib.rs).              *)
(*                                                                         *)
(* The macro input is a batch of alias declarations.  A declaration is     *)
(* represented by the pieces the parser reads in order: its outer          *)
(* attributes, visibility, alias name, generic parameters, the token that  *)
(* follows the generic parameters ("=" or a where clause) and the bound    *)
(* list.  Strings that the code concatenates (doc comments) are sequences  *)
(* of characters.                                                          *)
(***************************************************************************)
EXTENDS Integers, Sequences, FiniteSets, TLC

(***************************************************************************)
(* Bounds of the model.                                                    *)
(***************************************************************************)
MaxAttrs == 2
MaxParams == 2
MaxBatch == 3

SeqUpTo(S, n) == UNION {[1..k -> S] : k \in 0..n}

None == [some |-> FALSE, val |-> <<>>]
Some(v) == [some |-> TRUE, val |-> v]

(***************************************************************************)
(* Attributes.  shape is what Attribute::parse_meta makes of the tokens:   *)
(* "NameValue" (#[p = lit]), "Path" (#[p]), "List" (#[p(...)]) or "Tokens" *)
(* for token trees that are no Meta at all (#[p(1 + 2)]).  ident is the    *)
(* single-segment path, "" when the path has several segments.             *)
(***************************************************************************)
Attr(shape, ident, lit, value) ==
    [shape |-> shape, ident |-> ident, lit |-> lit, value |-> value]

DocValues == {<<>>, <<"a">>, <<"b">>}

Attrs ==
    {Attr("NameValue", "doc", "Str", v) : v \in DocValues}
    \cup {Attr("NameValue", "doc", "Int", <<>>),
          Attr("NameValue", "other", "Str", <<"a">>),
          Attr("NameValue", "", "Str", <<"a">>),
          Attr("Path", "inline", "", <<>>),
          Attr("List", "doc", "", <<>>),
          Attr("Tokens", "other", "", <<>>)}

(***************************************************************************)
(* Generic parameters and bounds.                                          *)
(***************************************************************************)
Param(kind, name, bounds) == [kind |-> kind, name |-> name, bounds |-> bounds]
Bound(trait, args) == [trait |-> trait, args |-> args]

INNER == Param("type", "_INNER", <<>>)

Params ==
    {Param("lifetime", "'a", <<>>),
     Param("lifetime", "'b", <<Bound("'a", <<>>)>>),
     Param("type", "T", <<>>),
     Param("type", "T", <<Bound("Send", <<>>)>>),
     Param("type", "U", <<>>),
     Param("type", "_INNER", <<>>)}

DistinctNames(ps) == \A i, j \in 1..Len(ps) : i # j => ps[i].name # ps[j].name

Decl(attrs, vis, name, params, tail, bounds) ==
    [attrs |-> attrs, vis |-> vis, name |-> name, params |-> params,
     tail |-> tail, bounds |-> bounds]

(***************************************************************************)
(* Results of fallible steps (syn::Result).                                *)
(***************************************************************************)
Ok(v) == [ok |-> TRUE, val |-> v, msg |-> "", span |-> ""]
Err(msg, span) == [ok |-> FALSE, val |-> <<>>, msg |-> msg, span |-> span]

(***************************************************************************)
(* Attribute::parse_meta: fails on token trees that are not a Meta.        *)
(***************************************************************************)
parse_meta(attr) ==
    IF attr.shape = "Tokens"
    THEN Err("expected meta", "attr")
    ELSE Ok(attr)

(***************************************************************************)
(* The body of the if-let chain of parse_doc: out += value; out.push('\n') *)
(***************************************************************************)
push_doc_no_newline(out, value) == out \o value

push_doc(out, value) == out \o value \o <<"\n">>

is_doc_name_value(meta) ==
    /\ meta.shape = "NameValue"
    /\ meta.ident = "doc"
    /\ meta.lit = "Str"

RECURSIVE parse_doc_loop(_, _)
parse_doc_loop(attrs, out) ==
    IF attrs = <<>>
    THEN Ok(IF out # <<>> THEN Some(out) ELSE None)
    ELSE LET meta == parse_meta(Head(attrs)) IN
         IF ~meta.ok
         THEN meta
         ELSE parse_doc_loop(Tail(attrs),
                             IF is_doc_name_value(meta.val)
                             THEN push_doc(out, meta.val.value)
                             ELSE out)

parse_doc(attrs) == parse_doc_loop(attrs, <<>>)

(***************************************************************************)
(* input.parse::<Generics>(): reads the angle-bracketed parameter list     *)
(* only; it never reads a where clause, the field stays None.              *)
(***************************************************************************)
Generics_parse(decl) == [params |-> decl.params, where_clause |-> None]

(***************************************************************************)
(* impl Parse for TraitSet.  Fields are parsed in order, each with '?'.     *)
(***************************************************************************)
TraitSet_parse(decl) ==
    LET doc == parse_doc(decl.attrs) IN
    IF ~doc.ok THEN doc
    ELSE
      LET generics == Generics_parse(decl) IN
      IF decl.tail # "="
      THEN Err("expected =", decl.tail)
      ELSE
        LET result == [doc_comment |-> doc.val,
                       visibility |-> decl.vis,
                       alias_name |-> decl.name,
                       generics |-> generics,
                       traits |-> decl.bounds] IN
        IF result.generics.where_clause.some
        THEN Err("Where clause is not allowed for trait alias", "where")
        ELSE Ok(result)

(***************************************************************************)
(* Rendering.  A fragment is the pair (trait declaration, blanket impl):   *)
(*   #doc  #vis trait #name<#trait_generics>: #supertraits {}              *)
(*   impl<#impl_generics> #name<#trait_args> for #self_ty                  *)
(*       where #self_ty: #where_bounds {}                                  *)
(***************************************************************************)
Fragment(doc, vis, name, tg, sup, ig, ta, wb) ==
    [doc |-> doc, vis |-> vis, name |-> name, trait_generics |-> tg,
     supertraits |-> sup, impl_generics |-> ig, trait_args |-> ta,
     self_ty |-> "_INNER", where_bounds |-> wb]

render_non_generic(ts) ==
    Fragment(ts.doc_comment, ts.visibility, ts.alias_name, <<>>, ts.traits,
             <<INNER>>, <<>>, ts.traits)

clear_bounds(param) ==
    IF param.kind = "type" THEN [param EXCEPT !.bounds = <<>>] ELSE param

render_generic_inner_first(ts) ==
    LET bound_generics == ts.generics.params
        unbound_generics == [i \in 1..Len(bound_generics) |->
                                clear_bounds(bound_generics[i])]
    IN Fragment(ts.doc_comment, ts.visibility, ts.alias_name, bound_generics,
                ts.traits, <<INNER>> \o bound_generics, unbound_generics,
                ts.traits)

render_generic(ts) ==
    LET bound_generics == ts.generics.params
        unbound_generics == [i \in 1..Len(bound_generics) |->
                                clear_bounds(bound_generics[i])]
    IN Fragment(ts.doc_comment, ts.visibility, ts.alias_name, bound_generics,
                ts.traits, Append(bound_generics, INNER), unbound_generics,
                ts.traits)

render(ts) ==
    IF ts.generics.params = <<>>
    THEN render_non_generic(ts)
    ELSE render_generic(ts)

(***************************************************************************)
(* One iteration of parse_terminated(TraitSet::parse): a parsed entry is   *)
(* pushed, an error is returned at once and drops the entries.             *)
(***************************************************************************)
parse_terminated_recover(entries, res) ==
    [pc |-> "parse", entries |-> entries, error |-> None]

parse_terminated_step(entries, res) ==
    IF res.ok
    THEN [pc |-> "parse", entries |-> Append(entries, res.val), error |-> None]
    ELSE [pc |-> "error", entries |-> <<>>,
          error |-> Some([msg |-> res.msg, span |-> res.span])]

(***************************************************************************)
(* TokenStream2::from_iter: fragments are appended in iteration order.     *)
(***************************************************************************)
from_iter_prepend(out, frag) == <<frag>> \o out

from_iter(out, frag) == Append(out, frag)

(***************************************************************************)
(* Inputs.  Three families of batches: one declaration with any attribute  *)
(* list, one declaration with any generic parameter list and either tail,  *)
(* and batches of declarations taken from the crate's examples.            *)
(***************************************************************************)
Send == Bound("Send", <<>>)
Sync == Bound("Sync", <<>>)
Iterator(item) == Bound("Iterator", <<item>>)

AttrDecls ==
    {Decl(attrs, "pub(crate)", "TraitSet", <<>>, "=", <<Send, Sync>>) :
        attrs \in SeqUpTo(Attrs, MaxAttrs)}

GenericDecls ==
    {Decl(<<>>, "", "Foo", params, tail, <<Send>>) :
        params \in {ps \in SeqUpTo(Params, MaxParams) : DistinctNames(ps)},
        tail \in {"=", "where"}}

ExampleDecls ==
    {Decl(<<Attr("NameValue", "doc", "Str", <<"a">>)>>, "pub", "ThreadSafe",
          <<>>, "=", <<Send, Sync>>),
     Decl(<<>>, "pub", "ThreadSafeIterator", <<Param("type", "T", <<>>)>>,
          "=", <<Bound("ThreadSafe", <<>>), Iterator("T")>>),
     Decl(<<>>, "pub", "ThreadSafeBytesIterator", <<>>, "=",
          <<Bound("ThreadSafeIterator", <<"u8">>)>>),
     Decl(<<>>, "pub(crate)", "GenericIteratorSendableT",
          <<Param("type", "T", <<Send>>)>>, "=", <<Iterator("T")>>),
     Decl(<<>>, "", "Foo", <<Param("type", "T", <<>>)>>, "where", <<Send>>),
     Decl(<<Attr("Tokens", "other", "", <<>>)>>, "", "Bar", <<>>, "=",
          <<Send>>)}

Batches ==
    {<<d>> : d \in AttrDecls \cup GenericDecls}
    \cup SeqUpTo(ExampleDecls, MaxBatch)

(***************************************************************************)
(* State of one expansion of trait_set!.                                   *)
(***************************************************************************)
VARIABLES tokens, pc, pos, entries, output, error

vars == <<tokens, pc, pos, entries, output, error>>

Init ==
    /\ tokens \in Batches
    /\ pc = "parse"
    /\ pos = 1
    /\ entries = <<>>
    /\ output = <<>>
    /\ error = None

\* ManyTraitSet::parse: one declaration of the batch is parsed.
ParseEntry ==
    /\ pc = "parse"
    /\ pos <= Len(tokens)
    /\ LET step == parse_terminated_step(entries, TraitSet_parse(tokens[pos]))
       IN /\ pc' = step.pc
          /\ entries' = step.entries
          /\ error' = step.error
    /\ pos' = pos + 1
    /\ UNCHANGED <<tokens, output>>

\* ManyTraitSet::parse returns Ok: the input is exhausted.
ParseEnd ==
    /\ pc = "parse"
    /\ pos > Len(tokens)
    /\ pc' = "render"
    /\ pos' = 1
    /\ UNCHANGED <<tokens, entries, output, error>>

\* ManyTraitSet::render: one entry is rendered and collected.
RenderEntry ==
    /\ pc = "render"
    /\ pos <= Len(entries)
    /\ output' = from_iter(output, render(entries[pos]))
    /\ pos' = pos + 1
    /\ UNCHANGED <<tokens, pc, entries, error>>

\* trait_set returns the collected token stream.
Return ==
    /\ pc = "render"
    /\ pos > Len(entries)
    /\ pc' = "done"
    /\ UNCHANGED <<tokens, pos, entries, output, error>>

Next == ParseEntry \/ ParseEnd \/ RenderEntry \/ Return

Spec == Init /\ [][Next]_vars

(***************************************************************************)
(* What the compiler makes of the emitted items.  A small universe of      *)
(* concrete types with the std traits they implement:                      *)
(*   u8, Rc<u8>, str, vec::IntoIter<u8>, vec::IntoIter<Rc<u8>>,            *)
(*   dyn Iterator<Item = u8> + Send + Sync.                                *)
(***************************************************************************)
Types == {"u8", "rc", "str", "bytes", "rcs", "dyn_bytes"}

BaseTraits == {"Send", "Sync", "Iterator"}

Sized(t) == t \notin {"str", "dyn_bytes"}

BaseImpls(t) ==
    CASE t = "u8" -> {Send, Sync}
      [] t = "rc" -> {}
      [] t = "str" -> {Send, Sync}
      [] t = "bytes" -> {Send, Sync, Iterator("u8")}
      [] t = "rcs" -> {Iterator("rc")}
      [] t = "dyn_bytes" -> {Send, Sync, Iterator("u8")}
      [] OTHER -> {}

\* The argument list args substituted for the parameters of the list ps.
Subst(ps, args, name) ==
    IF \E i \in 1..Len(ps) : ps[i].name = name
    THEN args[CHOOSE i \in 1..Len(ps) : ps[i].name = name]
    ELSE name

SubstBound(ps, args, b) ==
    Bound(b.trait, [k \in 1..Len(b.args) |-> Subst(ps, args, b.args[k])])

(***************************************************************************)
(* Implements(out, t, b, depth): type t satisfies the bound b, given the   *)
(* items of out.  A std trait is looked up; a synthesized trait is         *)
(* implemented only through its blanket impl                               *)
(*   impl<#impl_generics> #name<#trait_args> for _INNER                    *)
(*       where _INNER: #where_bounds {}                                    *)
(* whose type parameters (the implementing one included) are Sized unless  *)
(* declared otherwise and must meet their inline bounds.                   *)
(***************************************************************************)
RECURSIVE Implements(_, _, _, _)
Implements(out, t, b, depth) ==
    IF b.trait \in BaseTraits
    THEN b \in BaseImpls(t)
    ELSE
      /\ depth > 0
      /\ \E i \in 1..Len(out) :
           LET f == out[i] IN
           /\ f.name = b.trait
           /\ Len(b.args) = Len(f.trait_args)
           /\ \A j, k \in 1..Len(f.impl_generics) :
                j # k => f.impl_generics[j].name # f.impl_generics[k].name
           /\ \A j \in 1..Len(f.impl_generics) :
                LET p == f.impl_generics[j]
                    ty == IF p.name = f.self_ty
                          THEN t
                          ELSE Subst(f.trait_args, b.args, p.name)
                IN p.kind = "type" =>
                     /\ Sized(ty)
                     /\ \A k \in 1..Len(p.bounds) :
                          Implements(out, ty,
                              SubstBound(f.trait_args, b.args, p.bounds[k]),
                              depth - 1)
           /\ \A k \in 1..Len(f.where_bounds) :
                Implements(out, t,
                    SubstBound(f.trait_args, b.args, f.where_bounds[k]),
                    depth - 1)

Satisfies(t, b) == Implements(output, t, b, Len(output) + 1)

\* Argument lists for a parameter list: a type for each type parameter.
ArgLists(ps) ==
    {args \in [1..Len(ps) -> Types \cup {"'static"}] :
        \A i \in 1..Len(ps) :
            (ps[i].kind = "lifetime") <=> (args[i] = "'static")}

\* Every name in the bound lists is a std trait or an alias of the batch,
\* and no alias is declared twice.
Resolved ==
    /\ \A i \in 1..Len(tokens) : \A k \in 1..Len(tokens[i].bounds) :
         \/ tokens[i].bounds[k].trait \in BaseTraits
         \/ \E j \in 1..(i - 1) : tokens[j].name = tokens[i].bounds[k].trait
    /\ \A i, j \in 1..Len(tokens) : i # j => tokens[i].name # tokens[j].name

(***************************************************************************)
(* Properties.                                                             *)
(***************************************************************************)
Terminal == pc \in {"done", "error"}

AliasRef(i, args) == Bound(tokens[i].name, args)

\* C1: for every declaration without generic parameters of a valid batch, a
\* type satisfies the synthesized alias if and only if it satisfies every
\* bound of the declaration directly.
C1_RoundTripEquivalence ==
    (pc = "done" /\ Resolved) =>
        \A i \in 1..Len(tokens) :
            tokens[i].params = <<>> =>
                \A t \in Types :
                    Satisfies(t, AliasRef(i, <<>>))
                    <=> \A k \in 1..Len(tokens[i].bounds) :
                            Satisfies(t, tokens[i].bounds[k])

\* C2: for every generic declaration Name<P...> = B(P...) of a valid batch
\* and every substitution of concrete arguments for P, a type satisfies
\* Name<args> if and only if it satisfies B under the same substitution.
C2_GenericEquivalence ==
    (pc = "done" /\ Resolved) =>
        \A i \in 1..Len(tokens) :
            tokens[i].params # <<>> =>
                \A args \in ArgLists(tokens[i].params) : \A t \in Types :
                    Satisfies(t, AliasRef(i, args))
                    <=> \A k \in 1..Len(tokens[i].bounds) :
                            Satisfies(t, SubstBound(tokens[i].params, args,
                                                    tokens[i].bounds[k]))

\* C3: in every fragment rendered by the generic branch, the trait argument
\* list of the impl has the declaration's parameter names in order with no
\* inline bound left on any parameter, while the trait header and the impl's
\* own parameter list keep the declared parameters unchanged.
C3_TraitArgsStripped ==
    pc = "done" =>
        \A i \in 1..Len(tokens) :
            LET ps == tokens[i].params
                f == output[i]
            IN ps # <<>> =>
                 /\ Len(f.trait_args) = Len(ps)
                 /\ \A k \in 1..Len(ps) :
                      /\ f.trait_args[k].name = ps[k].name
                      /\ f.trait_args[k].bounds = <<>>
                 /\ f.trait_generics = ps
                 /\ SubSeq(f.impl_generics, 1, Len(ps)) = ps

\* C4: a declaration whose generic parameter list is followed by a where
\* clause fails with the where-clause-not-allowed error located at the
\* where clause, and nothing is emitted.
C4_WhereClauseRejected ==
    (/\ pc = "error"
     /\ tokens[pos - 1].tail = "where"
     /\ tokens[pos - 1].params # <<>>
     /\ parse_doc(tokens[pos - 1].attrs).ok) =>
        /\ error = Some([msg |-> "Where clause is not allowed for trait alias",
                         span |-> "where"])
        /\ output = <<>>

Failing(i) == ~TraitSet_parse(tokens[i]).ok

FirstFailing == CHOOSE i \in 1..Len(tokens) :
                    Failing(i) /\ \A j \in 1..(i - 1) : ~Failing(j)

\* C5: when some declaration of the batch fails to parse, no fragment is
\* ever emitted, rendering is never entered, and the expansion ends with the
\* diagnostic of the first failing declaration and nothing else.
C5_FirstErrorAborts ==
    (\E i \in 1..Len(tokens) : Failing(i)) =>
        /\ output = <<>>
        /\ pc \in {"parse", "error"}
        /\ pc = "parse" => pos <= FirstFailing /\ error = None
        /\ pc = "error" =>
             /\ pos = FirstFailing + 1
             /\ entries = <<>>
             /\ error = Some([msg |-> TraitSet_parse(tokens[FirstFailing]).msg,
                              span |-> TraitSet_parse(tokens[FirstFailing]).span])

C5_Witness ==
    /\ pc = "error"
    /\ pos = 3
    /\ Len(tokens) = 3
    /\ ~Failing(1)
    /\ ~Failing(3)
    /\ output = <<>>

\* C6: a batch of n valid declarations expands without error to exactly n
\* fragments, the i-th being the rendering of the i-th declaration alone;
\* the empty batch expands to the empty output.
C6_BatchInOrder ==
    (\A i \in 1..Len(tokens) : ~Failing(i)) =>
        /\ pc # "error"
        /\ error = None
        /\ pc = "done" =>
             /\ Len(output) = Len(tokens)
             /\ \A i \in 1..Len(tokens) :
                  output[i] = render(TraitSet_parse(tokens[i]).val)
        /\ tokens = <<>> => output = <<>>

C6_Witness ==
    /\ pc = "done"
    /\ Len(tokens) = 3
    /\ tokens[1] # tokens[2]
    /\ tokens[2] # tokens[3]
    /\ Len(output) = 3
    /\ output[1].name = tokens[1].name

IsDocAttr(a) == a.shape = "NameValue" /\ a.ident = "doc" /\ a.lit = "Str"

DocAttrs(attrs) == SelectSeq(attrs, IsDocAttr)

RECURSIVE JoinLines(_)
JoinLines(docs) ==
    IF docs = <<>>
    THEN <<>>
    ELSE JoinLines(SubSeq(docs, 1, Len(docs) - 1))
         \o docs[Len(docs)].value \o <<"\n">>

ExpectedDoc(attrs) ==
    IF DocAttrs(attrs) = <<>> THEN None ELSE Some(JoinLines(DocAttrs(attrs)))

\* C8: the documentation of a parsed declaration is the values of its doc
\* attributes in source order, each followed by a newline; it is absent
\* exactly when there is no doc attribute; the rendered fragment carries it
\* as its single doc attribute.
C8_DocConcatenation ==
    /\ pc \in {"parse", "render", "done"} =>
         \A i \in 1..Len(entries) :
            /\ entries[i].doc_comment = ExpectedDoc(tokens[i].attrs)
            /\ entries[i].doc_comment.some <=> DocAttrs(tokens[i].attrs) # <<>>
    /\ pc = "done" =>
         \A i \in 1..Len(output) :
            output[i].doc = ExpectedDoc(tokens[i].attrs)

C8_Witness ==
    /\ pc = "done"
    /\ Len(tokens) = 1
    /\ tokens[1].attrs = <<Attr("NameValue", "doc", "Str", <<"a">>),
                           Attr("NameValue", "doc", "Str", <<"b">>)>>
    /\ output[1].doc = Some(<<"a", "\n", "b", "\n">>)

StripOther(decl) == [decl EXCEPT !.attrs = DocAttrs(decl.attrs)]

RECURSIVE ExpandFrom(_, _)
ExpandFrom(batch, out) ==
    IF batch = <<>>
    THEN [error |-> None, output |-> out]
    ELSE LET res == TraitSet_parse(Head(batch)) IN
         IF ~res.ok
         THEN [error |-> Some([msg |-> res.msg, span |-> res.span]),
               output |-> <<>>]
         ELSE ExpandFrom(Tail(batch), from_iter(out, render(res.val)))

\* C9: attributes that are not doc attributes are discarded silently: the
\* result of an expansion (error or output) is the result for the same batch
\* with those attributes removed.
C9_OtherAttrsIgnored ==
    Terminal =>
        [error |-> error, output |-> output]
        = ExpandFrom([i \in 1..Len(tokens) |-> StripOther(tokens[i])], <<>>)

\* C10: in every rendered fragment the implementing type parameter has a
\* name different from every generic parameter declared on the alias, so
\* the impl's parameter list has no name twice.
C10_FreshImplementingParam ==
    pc = "done" =>
        \A i \in 1..Len(output) :
            /\ \A k \in 1..Len(tokens[i].params) :
                 tokens[i].params[k].name # output[i].self_ty
            /\ \A j, k \in 1..Len(output[i].impl_generics) :
                 j # k => output[i].impl_generics[j].name
                          # output[i].impl_generics[k].name

\* The requirement of a bound spelled out: an alias of the batch stands for
\* the bounds of its declaration, under the substitution of its arguments.
RECURSIVE Requires(_, _, _)
Requires(t, b, depth) ==
    IF b.trait \in BaseTraits
    THEN b \in BaseImpls(t)
    ELSE
      /\ depth > 0
      /\ \E j \in 1..Len(tokens) :
           /\ tokens[j].name = b.trait
           /\ Len(tokens[j].params) = Len(b.args)
           /\ \A k \in 1..Len(tokens[j].bounds) :
                Requires(t, SubstBound(tokens[j].params, b.args,
                                       tokens[j].bounds[k]), depth - 1)

RefersToAlias(i) ==
    \E k \in 1..Len(tokens[i].bounds) :
        tokens[i].bounds[k].trait \notin BaseTraits

\* C7: an alias whose bound list names an earlier alias of the batch is
\* satisfied by exactly the types that satisfy the bounds of the referenced
\* alias (through every level of reference) and every other listed bound.
C7_Composability ==
    (pc = "done" /\ Resolved) =>
        \A i \in 1..Len(tokens) :
            RefersToAlias(i) =>
                \A args \in ArgLists(tokens[i].params) : \A t \in Types :
                    Satisfies(t, AliasRef(i, args))
                    <=> \A k \in 1..Len(tokens[i].bounds) :
                            Requires(t, SubstBound(tokens[i].params, args,
                                                   tokens[i].bounds[k]),
                                     Len(tokens))

\* C11: in every fragment rendered by the generic branch, the impl's own
\* parameter list is the declared parameters in their original order
\* followed by the implementing type parameter as its last element, so
\* every lifetime parameter of the declaration stands before it.
C11_ImplParamsOrder ==
    pc = "done" =>
        \A i \in 1..Len(tokens) :
            LET ps == tokens[i].params
                ig == output[i].impl_generics
            IN ps # <<>> =>
                 /\ Len(ig) = Len(ps) + 1
                 /\ \A k \in 1..Len(ps) : ig[k] = ps[k]
                 /\ ig[Len(ig)] = INNER
                 /\ \A k \in 1..Len(ig) :
                      ig[k].kind = "lifetime" => k < Len(ig)

C11_Witness ==
    /\ pc = "done"
    /\ Len(tokens) = 1
    /\ Len(tokens[1].params) = 2
    /\ tokens[1].params[1].kind = "lifetime"
    /\ tokens[1].params[2].kind = "type"
    /\ output[1].impl_generics = Append(tokens[1].params, INNER)

====
